---- MODULE Spec2Model ----
(***************************************************************************)
(* Model of lib/RequestProxyStream.js: RequestToProxyStream, a Readable    *)
(* fed by the uWebSockets.js res.onData callback.                          *)
(*                                                                         *)
(* The class state (#sendQueue, #shouldClose, #maxStackedBuffers) is       *)
(* modelled together with the part of the inherited stream.Readable state  *)
(* that the class's calls to push() and destroy() read and write           *)
(* (length, highWaterMark, ended, destroyed, errored).  A chunk is a       *)
(* record [id, len]: id is the arrival rank of a non-empty chunk (0 for a  *)
(* zero-length chunk) and len its byteLength.                              *)
(***************************************************************************)
EXTENDS Integers, Sequences, FiniteSets, TLC

\* ---- bounds of the model ------------------------------------------------
MaxChunks == 3        \* onData callbacks per run
MaxThreshold == 1     \* largest configured maxStackedBuffers
MaxHwm == 2           \* largest highWaterMark, in bytes
MaxChunkLen == 1      \* largest chunk byteLength
MaxPushed == 3        \* chunks accepted by push() before _read stops being called

\* ---- program constants --------------------------------------------------
DefaultMaxStackedBuffers == 25

VARIABLES
    sendQueue,          \* #sendQueue
    shouldClose,        \* #shouldClose
    maxStackedBuffers,  \* #maxStackedBuffers
    highWaterMark,      \* Readable: _readableState.highWaterMark
    length,             \* Readable: _readableState.length (buffered bytes)
    ended,              \* Readable: _readableState.ended (push(null) seen)
    destroyed,          \* Readable: _readableState.destroyed
    errored,            \* Readable: _readableState.errored ("none" when null)
    reused,             \* source: chunks 1..reused have had their ArrayBuffer overwritten
    pushed,             \* history: ids of the chunks push() accepted, in order
    pushedBytes,        \* history: the bytes of the chunks push() accepted, in order
    fed,                \* history: number of non-empty chunks received
    calls,              \* history: number of onData callbacks
    srcDone,            \* history: the isLast = true callback has occurred
    closeCalls,         \* history: number of times #close was entered
    eofQueued,          \* history: largest #sendQueue length seen by a push(null)
    overflowCalls,      \* history: number of destroy(new Error(...)) calls
    everSaturated,      \* history: some push(data) returned false
    everReady,          \* history: some push(data) returned true
    everDrained,        \* history: _read or a consumer read has occurred
    aborted,            \* history: destroy() was called from outside the class
    emptySeen,          \* history: a zero-length chunk was received
    backlog,            \* history: ids queued (plus the final one) when the final chunk arrived
    finalWithBacklog,   \* history: the final chunk arrived with a non-empty queue
    lastOp              \* history: the last handler that ran and its arguments

vars == << sendQueue, shouldClose, maxStackedBuffers, highWaterMark, length,
           ended, destroyed, errored, pushed, fed, calls, srcDone, closeCalls,
           eofQueued, overflowCalls, everSaturated, everReady, everDrained,
           aborted, emptySeen, backlog, finalWithBacklog, lastOp, reused,
           pushedBytes >>

Range(s) == { s[i] : i \in 1..Len(s) }

Max(a, b) == IF a >= b THEN a ELSE b

\* ---- the object state threaded through one handler -----------------------
Cur ==
    [ q |-> sendQueue, sc |-> shouldClose, max |-> maxStackedBuffers,
      hwm |-> highWaterMark, length |-> length, ended |-> ended,
      destroyed |-> destroyed, errored |-> errored, pushed |-> pushed,
      bytes |-> pushedBytes,
      closeCalls |-> closeCalls, eofQueued |-> eofQueued,
      overflowCalls |-> overflowCalls, sat |-> everSaturated,
      rdy |-> everReady ]

Commit(b) ==
    /\ sendQueue' = b.q
    /\ shouldClose' = b.sc
    /\ maxStackedBuffers' = b.max
    /\ highWaterMark' = b.hwm
    /\ length' = b.length
    /\ ended' = b.ended
    /\ destroyed' = b.destroyed
    /\ errored' = b.errored
    /\ pushed' = b.pushed
    /\ pushedBytes' = b.bytes
    /\ closeCalls' = b.closeCalls
    /\ eofQueued' = b.eofQueued
    /\ overflowCalls' = b.overflowCalls
    /\ everSaturated' = b.sat
    /\ everReady' = b.rdy

\* ---- stream.Readable, as used by the class --------------------------------
\* return value of Readable.push: room below the highWaterMark
canPushMore(b) == ~b.ended /\ (b.length < b.hwm \/ b.length = 0)

\* _destroy(error, callback): this.#sendQueue = []
_destroy(b) == [b EXCEPT !.q = << >>]

\* this.destroy(err): only the first call has an effect; it runs _destroy
destroy(b, err) ==
    IF b.destroyed THEN b
    ELSE _destroy([b EXCEPT !.destroyed = TRUE, !.errored = err])

\* this.push(chunk) with a Buffer: a non-empty chunk is appended to the
\* stream's buffer unless the stream has ended (error) or is destroyed
\* (dropped); the result only says whether more may be pushed.
push(b, c) ==
    IF c.len > 0
    THEN IF b.ended
         THEN [b |-> destroy(b, "pushAfterEOF"), ret |-> FALSE]
         ELSE IF b.destroyed \/ b.errored # "none"
              THEN [b |-> b, ret |-> FALSE]
              ELSE LET b1 == [b EXCEPT !.length = @ + c.len,
                                       !.pushed = Append(@, c.id),
                                       !.bytes = Append(@, c.bytes)]
                   IN [b |-> b1, ret |-> canPushMore(b1)]
    ELSE [b |-> b, ret |-> canPushMore(b)]

\* this.push(null): marks the stream ended, once
pushNull(b) == [b EXCEPT !.ended = TRUE]

\* ---- RequestToProxyStream --------------------------------------------------
\* the bytes now held by the source's ArrayBuffer of chunk id: those it had on
\* arrival (written id) until the source overwrites them (written -id)
srcBytes(id) == IF id <= reused THEN 0 - id ELSE id

\* Buffer.from(chunk) on the ArrayBuffer that res.onData hands over: a Buffer
\* over the same memory, so the result still designates the source's chunk
bufferFrom(chunk) == chunk

\* createBufferCopy(buffer): Buffer.alloc + buffer.copy, the bytes as they are now
createBufferCopy(buffer) ==
    [id |-> buffer.id, len |-> buffer.len,
     bytes |-> IF buffer.len = 0 THEN 0 ELSE srcBytes(buffer.id)]

\* config.maxStackedBuffers || 25
configMaxStackedBuffers(v) == IF v = 0 THEN DefaultMaxStackedBuffers ELSE v

\* #close(): this.push(null); this.destroy();
close(b) ==
    destroy(pushNull([b EXCEPT !.closeCalls = @ + 1,
                               !.eofQueued = Max(@, Len(b.q))]), "none")

tryEndDeferOnly(b) == [b EXCEPT !.sc = TRUE]

\* #tryEnd(): set #shouldClose, close if the queue is empty
tryEnd(b) ==
    LET b1 == [b EXCEPT !.sc = TRUE]
    IN IF Len(b1.q) = 0 THEN close(b1) ELSE b1

isEmptyNever(buffer) == FALSE

\* buffer.byteLength === 0
isEmpty(buffer) == buffer.len = 0

atThresholdOffByOne(n, max) == n = max + 1

\* this.#sendQueue.length === this.#maxStackedBuffers
atThreshold(n, max) == n = max

\* #trySendChunk(buffer)
trySendChunk(b, buffer) ==
    IF isEmpty(buffer)
    THEN [b |-> tryEnd(b), ok |-> TRUE]
    ELSE LET r == push(b, createBufferCopy(buffer))
             b1 == [r.b EXCEPT !.sat = @ \/ ~r.ret, !.rdy = @ \/ r.ret]
         IN IF ~r.ret
            THEN IF atThreshold(Len(b1.q), b1.max)
                 THEN [b |-> destroy([b1 EXCEPT !.overflowCalls = @ + 1], "overflow"),
                       ok |-> FALSE]
                 ELSE [b |-> [b1 EXCEPT !.q = Append(@, buffer)], ok |-> FALSE]
            ELSE [b |-> b1, ok |-> TRUE]

\* res.onData((chunk, isLast) => { trySendChunk(Buffer.from(chunk)); if(isLast) tryEnd(); })
onData(b, chunk, isLast) ==
    LET b1 == trySendChunk(b, bufferFrom(chunk)).b
    IN IF isLast THEN tryEnd(b1) ELSE b1

\* this.#sendQueue.splice(0, 1)
splice01(q) == IF Len(q) = 0 THEN q ELSE Tail(q)

\* while (sendQueue.length > 0 && trySendChunk(sendQueue[0])) sendQueue.splice(0, 1)
RECURSIVE drainLoop(_)
drainLoop(b) ==
    IF Len(b.q) > 0
    THEN LET r == trySendChunk(b, b.q[1])
         IN IF r.ok THEN drainLoop([r.b EXCEPT !.q = splice01(@)]) ELSE r.b
    ELSE b

readClosesNoFlag(b) == Len(b.q) = 0

readClosesNever(b) == FALSE

\* this.#shouldClose && this.#sendQueue.length === 0
readCloses(b) == b.sc /\ Len(b.q) = 0

\* _read(n)
_read(b) ==
    LET b1 == drainLoop(b)
    IN IF readCloses(b1) THEN close(b1) ELSE b1

\* ---- initial state: constructor --------------------------------------------
Init ==
    /\ sendQueue = << >>
    /\ shouldClose = FALSE
    /\ \E v \in 0..MaxThreshold : maxStackedBuffers = configMaxStackedBuffers(v)
    /\ highWaterMark \in 1..MaxHwm
    /\ length = 0
    /\ ended = FALSE
    /\ destroyed = FALSE
    /\ errored = "none"
    /\ pushed = << >>
    /\ pushedBytes = << >>
    /\ reused = 0
    /\ fed = 0
    /\ calls = 0
    /\ srcDone = FALSE
    /\ closeCalls = 0
    /\ eofQueued = 0
    /\ overflowCalls = 0
    /\ everSaturated = FALSE
    /\ everReady = FALSE
    /\ everDrained = FALSE
    /\ aborted = FALSE
    /\ emptySeen = FALSE
    /\ backlog = {}
    /\ finalWithBacklog = FALSE
    /\ lastOp = [op |-> "new", len |-> 0, isLast |-> FALSE]

\* ---- actions ----------------------------------------------------------------
\* the source invokes the onData callback; it does so until its final chunk,
\* whether or not the stream has been destroyed in the meantime
OnData(len, isLast) ==
    /\ ~srcDone
    /\ calls < MaxChunks
    /\ LET chunk == [id |-> IF len = 0 THEN 0 ELSE fed + 1, len |-> len]
       IN /\ Commit(onData(Cur, chunk, isLast))
          /\ fed' = IF len = 0 THEN fed ELSE fed + 1
          /\ backlog' = IF isLast /\ Len(sendQueue) > 0
                        THEN { sendQueue[i].id : i \in 1..Len(sendQueue) }
                               \cup (IF len = 0 THEN {} ELSE {chunk.id})
                        ELSE backlog
          /\ finalWithBacklog' = (isLast /\ Len(sendQueue) > 0)
    /\ calls' = calls + 1
    /\ srcDone' = isLast
    /\ emptySeen' = (emptySeen \/ len = 0)
    /\ lastOp' = [op |-> "onData", len |-> len, isLast |-> isLast]
    /\ UNCHANGED << everDrained, aborted, reused >>

\* the stream calls _read when its consumer wants data; Readable.read never
\* calls it once the stream has ended or is destroyed
Read ==
    /\ ~ended /\ ~destroyed /\ errored = "none"
    /\ Len(pushed) < MaxPushed
    /\ Commit(_read(Cur))
    /\ everDrained' = TRUE
    /\ lastOp' = [op |-> "_read", len |-> 0, isLast |-> FALSE]
    /\ UNCHANGED << fed, calls, srcDone, aborted, emptySeen, backlog,
                    finalWithBacklog, reused >>

\* the consumer takes n buffered bytes out of the stream
Consume(n) ==
    /\ n <= length
    /\ length' = length - n
    /\ everDrained' = TRUE
    /\ lastOp' = [op |-> "consume", len |-> 0, isLast |-> FALSE]
    /\ UNCHANGED << sendQueue, shouldClose, maxStackedBuffers, highWaterMark,
                    ended, destroyed, errored, pushed, fed, calls, srcDone,
                    closeCalls, eofQueued, overflowCalls, everSaturated,
                    everReady, aborted, emptySeen, backlog, finalWithBacklog,
                    reused, pushedBytes >>

\* the consumer (or a pipeline) calls destroy(err) or destroy()
Destroy(err) ==
    /\ ~destroyed
    /\ Commit(destroy(Cur, err))
    /\ aborted' = TRUE
    /\ lastOp' = [op |-> "destroy", len |-> 0, isLast |-> FALSE]
    /\ UNCHANGED << fed, calls, srcDone, everDrained, emptySeen, backlog,
                    finalWithBacklog, reused >>

\* after a callback has returned, the source reuses the memory of the chunks it
\* has handed over so far, up to chunk k
SourceReuse(k) ==
    /\ reused < k /\ k <= fed
    /\ reused' = k
    /\ lastOp' = [op |-> "reuse", len |-> 0, isLast |-> FALSE]
    /\ UNCHANGED << sendQueue, shouldClose, maxStackedBuffers, highWaterMark,
                    length, ended, destroyed, errored, pushed, pushedBytes, fed,
                    calls, srcDone, closeCalls, eofQueued, overflowCalls,
                    everSaturated, everReady, everDrained, aborted, emptySeen,
                    backlog, finalWithBacklog >>

Next ==
    \/ \E len \in 0..MaxChunkLen, isLast \in BOOLEAN : OnData(len, isLast)
    \/ Read
    \/ \E n \in 1..(MaxHwm + MaxChunkLen * MaxPushed) : Consume(n)
    \/ \E err \in {"none", "external"} : Destroy(err)
    \/ \E k \in 1..MaxChunks : SourceReuse(k)

Spec == Init /\ [][Next]_vars

\* ---- vocabulary of the properties ---------------------------------------------
\* the non-empty chunks received from the source, in arrival order
Arrived == [i \in 1..fed |-> i]

\* the ids of the queued chunks, head first
QueueIds == [i \in 1..Len(sendQueue) |-> sendQueue[i].id]

IsPrefix(s, t) == Len(s) <= Len(t) /\ \A i \in 1..Len(s) : s[i] = t[i]

\* the consumer has been saturated at every push and has never drained
NeverDrains == ~everDrained /\ ~everReady /\ ~aborted /\ ~emptySeen

\* C1: as long as no overflow and no outside destroy has occurred, the chunks
\* handed to the consumer are the non-empty chunks received, in arrival order
\* (a prefix of them while some are queued), none duplicated, reordered or lost.
OrderAndFidelity ==
    (overflowCalls = 0 /\ ~aborted) =>
        /\ IsPrefix(pushed, Arrived)
        /\ (sendQueue = << >> => pushed = Arrived)

\* C2: the pending queue never holds more than maxStackedBuffers chunks, and a
\* callback whose chunk meets a full queue leaves the stream destroyed with the
\* chunk not enqueued.
BoundedQueue ==
    /\ [](Len(sendQueue) <= maxStackedBuffers)
    /\ [][(lastOp'.op = "onData" /\ lastOp'.len > 0
             /\ Len(sendQueue) = maxStackedBuffers) =>
            fed' \notin Range(QueueIds')]_vars
    /\ [][(lastOp'.op = "onData" /\ overflowCalls' > overflowCalls) =>
            /\ Len(sendQueue) = maxStackedBuffers
            /\ destroyed'
            /\ fed' \notin Range(QueueIds')]_vars

BoundedQueueWitness ==
    /\ lastOp.op = "onData"
    /\ overflowCalls = 1
    /\ errored = "overflow"
    /\ fed = maxStackedBuffers + 1

\* C3: with a consumer that is saturated and never drains, the first
\* maxStackedBuffers chunks are queued, the next one destroys the stream with
\* the overflow error, that error is raised once, and no later chunk is
\* retained in the queue or handed to the consumer.  (The consumer of this
\* scenario never reads, so it takes nothing out of the stream; what push()
\* was given before the overflow is not constrained here.)
OverflowFailFast ==
    NeverDrains =>
        IF fed <= maxStackedBuffers
        THEN QueueIds = Arrived /\ overflowCalls = 0 /\ ~destroyed
        ELSE /\ overflowCalls = 1
             /\ errored = "overflow"
             /\ sendQueue = << >>
             /\ \A i \in 1..Len(pushed) : pushed[i] <= maxStackedBuffers + 1

\* C4: push(null) is never called while the queue is non-empty, and when the
\* final chunk found the queue non-empty, end-of-data is issued only after
\* every chunk queued at that moment, and the final chunk itself, has been
\* handed to the consumer.
EndOfDataOrdering ==
    /\ eofQueued = 0
    /\ (finalWithBacklog /\ ended) => backlog \subseteq Range(pushed)

\* C5: #close is entered at most once per instance.
IdempotentClose == closeCalls <= 1

\* C6 (as stated): the stream is never ended before the isLast = true callback.
ClosedOnlyAfterFinal == ended => srcDone

\* C6 (amended): the stream is ended only after a closing signal, which is a
\* callback with isLast = true or a zero-length chunk, and only by a push(null)
\* that found the queue empty.
ClosedOnlyAfterClosingSignal ==
    ended => (shouldClose /\ (srcDone \/ emptySeen) /\ eofQueued = 0)

ClosedOnlyAfterClosingSignalWitness ==
    ended /\ emptySeen /\ ~srcDone /\ fed >= 1

\* C7: once destroyed, the queue is empty and stays empty.
DestroyedQueueEmpty == destroyed => sendQueue = << >>

\* C8: end-of-data and the overflow error are never both issued.
ExclusiveTerminalSignals == ~(closeCalls > 0 /\ overflowCalls > 0)

\* C9: a zero-length chunk is never queued and never handed to the consumer;
\* a zero-length final chunk sets the closing flag and closes at once if the
\* queue is empty, and otherwise leaves the queue as it is and defers.
EmptyChunkHandling ==
    /\ [](0 \notin Range(QueueIds) /\ 0 \notin Range(pushed))
    /\ [][(lastOp'.op = "onData" /\ lastOp'.len = 0) =>
            /\ pushed' = pushed
            /\ Len(sendQueue') <= Len(sendQueue)
            /\ lastOp'.isLast =>
                 /\ shouldClose'
                 /\ IF Len(sendQueue) = 0
                    THEN closeCalls' > closeCalls /\ ended'
                    ELSE closeCalls' = closeCalls /\ sendQueue' = sendQueue]_vars

EmptyChunkHandlingWitness ==
    /\ lastOp = [op |-> "onData", len |-> 0, isLast |-> TRUE]
    /\ shouldClose
    /\ Len(sendQueue) > 0
    /\ ~ended /\ ~destroyed

\* C10: while the consumer has never reported saturation (non-empty chunks, then
\* a final chunk, no outside destroy) the queue is empty, the chunks handed over
\* are exactly those received, in order, no error is raised, and the stream is
\* ended exactly when the final chunk has been received.
AlwaysReadyConsumer ==
    (~everSaturated /\ ~aborted /\ (emptySeen => srcDone)) =>
        /\ sendQueue = << >>
        /\ pushed = Arrived
        /\ errored = "none" /\ overflowCalls = 0
        /\ ended <=> srcDone

AlwaysReadyConsumerWitness ==
    /\ ~everSaturated /\ ~aborted
    /\ srcDone /\ ended
    /\ fed >= 2
    /\ pushed = Arrived

\* C11: the bytes handed to the consumer for a chunk are the bytes the chunk
\* had on arrival, whatever the source does to its buffer after the callback
\* has returned.
NoAliasing == \A i \in 1..Len(pushedBytes) : pushedBytes[i] = pushed[i]

\* the final chunk has been received, chunks are still queued and the stream
\* is neither closed nor destroyed
Closing == srcDone /\ shouldClose /\ sendQueue # << >> /\ ~destroyed /\ ~ended

IsSuffix(s, t) ==
    /\ Len(s) <= Len(t)
    /\ \A i \in 1..Len(s) : s[i] = t[Len(t) - Len(s) + i]

\* C12: from the Closing state no step takes the stream to Destroyed with the
\* overflow error (no new chunk arrives after the final one), so that the
\* drain requests of the consumer can only complete the deferred close.
DeferredCloseCompletes == [][Closing => errored' # "overflow"]_vars

\* C13: a drain request leaves a suffix of the queue it found (the chunks from
\* the first one whose attempt failed), and never a longer queue.
DrainKeepsSuffix ==
    [][lastOp'.op = "_read" =>
         /\ Len(sendQueue') <= Len(sendQueue)
         /\ IsSuffix(sendQueue', sendQueue)]_vars

\* C14: a drain request never calls destroy with the overflow error.
DrainNeverOverflows ==
    [][lastOp'.op = "_read" => overflowCalls' = overflowCalls]_vars

\* C15: a chunk waiting in the queue has not been handed to the consumer, and
\* no chunk is handed to the consumer more than once.
QueuedNotYetDelivered ==
    /\ \A i \in 1..Len(sendQueue) : sendQueue[i].id \notin Range(pushed)
    /\ \A i, j \in 1..Len(pushed) : pushed[i] = pushed[j] => i = j

\* C16: after every callback and every drain request, a stream whose closing
\* flag is set and whose queue is empty is ended or destroyed; a final chunk
\* that finds the queue empty and is taken by a ready consumer ends the stream
\* within its callback, and a drain that empties the queue while Closing ends
\* it within that drain.
PromptClose ==
    /\ []((shouldClose /\ sendQueue = << >>) => (ended \/ destroyed))
    /\ [][(lastOp'.op = "onData" /\ lastOp'.isLast /\ ~shouldClose /\ ~destroyed
             /\ sendQueue = << >> /\ sendQueue' = << >> /\ errored' = "none") =>
            (ended' /\ closeCalls' > closeCalls)]_vars
    /\ [][(lastOp'.op = "_read" /\ Closing /\ sendQueue' = << >>
             /\ errored' = "none") =>
            (ended' /\ closeCalls' > closeCalls)]_vars

PromptCloseWitness ==
    /\ lastOp.op = "_read"
    /\ finalWithBacklog
    /\ sendQueue = << >>
    /\ ended /\ errored = "none" /\ ~aborted
    /\ closeCalls = 1

\* C17: a non-empty chunk that arrives while the queue is non-empty is placed
\* behind the queued chunks, or triggers the overflow, whether or not the
\* consumer has become ready in the meantime.
NoOvertaking ==
    [][(lastOp'.op = "onData" /\ lastOp'.len > 0 /\ Len(sendQueue) > 0) =>
         \/ QueueIds' = Append(QueueIds, fed')
         \/ overflowCalls' > overflowCalls]_vars

====
